---- MODULE Spec2Model ----
(***************************************************************************)
(* ethabi/src/contract.rs: the Contract index, the fold that builds it     *)
(* from a sequence of Operation values (ContractVisitor::visit_seq), and   *)
(* its read-only query surface.                                            *)
(*                                                                         *)
(* Option<T> is modelled as a sequence of length at most one (<<>> is      *)
(* None, <<x>> is Some(x)); Result<T, E> as a record tagged "Ok" / "Err";  *)
(* a String as a sequence of character codes, ordered as Rust orders       *)
(* strings (lexicographically, a proper prefix first).                     *)
(***************************************************************************)
EXTENDS Integers, Sequences, FiniteSets, TLC

\* Longest source array explored.
MaxLen == 3

\* Distinct payloads (inputs/outputs of a Function, Event or Constructor)
\* explored, beyond the name.
MaxId == 2

\* The names explored, "ab" and "b" over the alphabet a = 1, b = 2: "ab"
\* sorts before "b" although it is longer and although, in the sources
\* explored, it may be inserted later.
Names == {<<1, 2>>, <<2>>}

\* The diagnostic the decoder reports.
Diagnostics == {"syntax"}

Ids == 1..MaxId

VARIABLES src, pos, result, loaded, call, iter, out, prev

vars == <<src, pos, result, loaded, call, iter, out, prev>>

----------------------------------------------------------------------------
\* The input

Constructors == [tag : {"Constructor"}, constructor : Ids]

FunctionOps == [tag : {"Function"}, func : [name : Names, id : Ids]]

EventOps == [tag : {"Event"}, event : [name : Names, id : Ids]]

\* enum Operation, as consumed by the match of visit_seq.
Operation == Constructors \cup FunctionOps \cup EventOps
             \cup {[tag |-> "Fallback"], [tag |-> "Receive"]}

\* An array element the decoder cannot turn into an Operation.
Malformed == [tag : {"Malformed"}, msg : Diagnostics]

Element == Operation \cup Malformed

Sources == UNION {[1..n -> Element] : n \in 0..MaxLen}

----------------------------------------------------------------------------
\* The fold

\* The Contract literal visit_seq starts from.
EmptyContract ==
  [constructor |-> <<>>, functions |-> <<>>, events |-> <<>>,
   fallback |-> FALSE, receive |-> FALSE]

\* BTreeMap::entry(key).or_default()
OrDefault(map, key) ==
  IF key \in DOMAIN map THEN map ELSE map @@ (key :> <<>>)

\* The key created and the push left out.
PushEntryNoPush(map, key, value) == OrDefault(map, key)

\* The push replaced by an insert at the front.
PushEntryFront(map, key, value) ==
  [OrDefault(map, key) EXCEPT ![key] = <<value>> \o @]

\* map.entry(key).or_default().push(value)
PushEntry(map, key, value) ==
  [OrDefault(map, key) EXCEPT ![key] = Append(@, value)]

\* The constructor stored in a fresh Contract literal.
SetConstructorFresh(r, c) == [EmptyContract EXCEPT !.constructor = <<c>>]

\* The constructor kept once set: the first entry wins.
SetConstructorOnce(r, c) ==
  IF r.constructor = <<>> THEN [r EXCEPT !.constructor = <<c>>] ELSE r

\* result.constructor = Some(constructor)
SetConstructor(r, c) == [r EXCEPT !.constructor = <<c>>]

\* result.functions.entry(func.name.clone()).or_default().push(func)
PushFunction(r, func) == [r EXCEPT !.functions = PushEntry(@, func.name, func)]

\* result.events.entry(event.name.clone()).or_default().push(event)
PushEvent(r, ev) == [r EXCEPT !.events = PushEntry(@, ev.name, ev)]

\* The flag flipped in the place of set.
SetFallbackToggle(r) == [r EXCEPT !.fallback = ~@]

\* result.fallback = true
SetFallback(r) == [r EXCEPT !.fallback = TRUE]

\* The Receive arm writing the flag of the Fallback arm.
SetReceiveAsFallback(r) == [r EXCEPT !.fallback = TRUE]

\* result.receive = true
SetReceive(r) == [r EXCEPT !.receive = TRUE]

\* One iteration of the while loop: the match on the operation.
Step(r, operation) ==
  CASE operation.tag = "Constructor" -> SetConstructor(r, operation.constructor)
    [] operation.tag = "Function" -> PushFunction(r, operation.func)
    [] operation.tag = "Event" -> PushEvent(r, operation.event)
    [] operation.tag = "Fallback" -> SetFallback(r)
    [] operation.tag = "Receive" -> SetReceive(r)

\* The while loop run over a whole sequence of operations.
RECURSIVE Fold(_, _)
Fold(r, s) == IF s = <<>> THEN r ELSE Fold(Step(r, Head(s)), Tail(s))

NoCall == [op |-> "none"]

NoIter == [kind |-> "none"]

Pending == [tag |-> "Pending"]

Init ==
  /\ src \in Sources
  /\ pos = 0
  /\ result = EmptyContract
  /\ loaded = Pending
  /\ call = NoCall
  /\ iter = NoIter
  /\ out = <<>>
  /\ prev = <<>>

\* seq.next_element()? yields Some(operation): the loop body runs.
VisitElement ==
  /\ loaded = Pending
  /\ pos < Len(src)
  /\ src[pos + 1].tag # "Malformed"
  /\ result' = Step(result, src[pos + 1])
  /\ pos' = pos + 1
  /\ UNCHANGED <<src, loaded, call, iter, out, prev>>

\* What from_str returns when the decoder fails: the decoder's error,
\* converted by map_err(From::from), with its diagnostic.
DecodeFailure(msg) == [tag |-> "Err", error |-> [kind |-> "SerdeJson", msg |-> msg]]

\* The error taken for the end of the sequence.
VisitErrorAsEnd ==
  /\ loaded = Pending
  /\ pos < Len(src)
  /\ src[pos + 1].tag = "Malformed"
  /\ loaded' = [tag |-> "Ok", contract |-> result]
  /\ pos' = pos + 1
  /\ UNCHANGED <<src, result, call, iter, out, prev>>

\* seq.next_element()? fails: visit_seq returns the error and from_str
\* converts it; the local result is dropped.
VisitError ==
  /\ loaded = Pending
  /\ pos < Len(src)
  /\ src[pos + 1].tag = "Malformed"
  /\ loaded' = DecodeFailure(src[pos + 1].msg)
  /\ pos' = pos + 1
  /\ UNCHANGED <<src, result, call, iter, out, prev>>

\* seq.next_element()? yields None: Ok(result).
VisitEnd ==
  /\ loaded = Pending
  /\ pos = Len(src)
  /\ loaded' = [tag |-> "Ok", contract |-> result]
  /\ UNCHANGED <<src, pos, result, call, iter, out, prev>>

----------------------------------------------------------------------------
\* The query surface

\* BTreeMap::get
Get(map, key) == IF key \in DOMAIN map THEN <<map[key]>> ELSE <<>>

\* last() in the place of next().
FlattenLastOpt(opt) ==
  IF opt = <<>> \/ opt[1] = <<>> THEN <<>> ELSE <<opt[1][Len(opt[1])]>>

\* Option<&Vec<T>>::into_iter().flatten().next(): the first element of the
\* vector inside the option, if there is one.
FlattenNextOpt(opt) ==
  IF opt = <<>> \/ opt[1] = <<>> THEN <<>> ELSE <<Head(opt[1])>>

\* Error::InvalidName(name.to_owned())
InvalidName(name) == [kind |-> "InvalidName", name |-> name]

\* Option::ok_or_else
OkOrElse(opt, error) ==
  IF opt = <<>> THEN [tag |-> "Err", error |-> error]
                ELSE [tag |-> "Ok", val |-> opt[1]]

\* Contract::constructor
constructor(c) == c.constructor

\* Contract::function
function(c, name) == OkOrElse(FlattenNextOpt(Get(c.functions, name)), InvalidName(name))

\* event reading the functions map.
eventOfFunctions(c, name) ==
  OkOrElse(FlattenNextOpt(Get(c.functions, name)), InvalidName(name))

\* Contract::event
event(c, name) == OkOrElse(FlattenNextOpt(Get(c.events, name)), InvalidName(name))

\* Contract::events_by_name
events_by_name(c, name) == OkOrElse(Get(c.events, name), InvalidName(name))

\* Contract::functions_by_name
functions_by_name(c, name) == OkOrElse(Get(c.functions, name), InvalidName(name))

\* Contract::fallback
fallback(c) == c.fallback

Built == loaded.tag = "Ok"

CallConstructor ==
  /\ Built
  /\ call' = [op |-> "constructor", ret |-> constructor(loaded.contract)]
  /\ UNCHANGED <<src, pos, result, loaded, iter, out, prev>>

CallFunction ==
  /\ Built
  /\ \E name \in Names :
       call' = [op |-> "function", name |-> name, ret |-> function(loaded.contract, name)]
  /\ UNCHANGED <<src, pos, result, loaded, iter, out, prev>>

CallEvent ==
  /\ Built
  /\ \E name \in Names :
       call' = [op |-> "event", name |-> name, ret |-> event(loaded.contract, name)]
  /\ UNCHANGED <<src, pos, result, loaded, iter, out, prev>>

CallEventsByName ==
  /\ Built
  /\ \E name \in Names :
       call' = [op |-> "events_by_name", name |-> name,
                ret |-> events_by_name(loaded.contract, name)]
  /\ UNCHANGED <<src, pos, result, loaded, iter, out, prev>>

CallFunctionsByName ==
  /\ Built
  /\ \E name \in Names :
       call' = [op |-> "functions_by_name", name |-> name,
                ret |-> functions_by_name(loaded.contract, name)]
  /\ UNCHANGED <<src, pos, result, loaded, iter, out, prev>>

CallFallback ==
  /\ Built
  /\ call' = [op |-> "fallback", ret |-> fallback(loaded.contract)]
  /\ UNCHANGED <<src, pos, result, loaded, iter, out, prev>>

Next ==
  \/ VisitElement
  \/ VisitError
  \/ VisitEnd
  \/ CallConstructor
  \/ CallFunction
  \/ CallEvent
  \/ CallEventsByName
  \/ CallFunctionsByName
  \/ CallFallback

Spec == Init /\ [][Next]_vars

----------------------------------------------------------------------------
\* Iteration: functions() and events()

\* Ord for String: lexicographic by character, a proper prefix first.
RECURSIVE StrLess(_, _)
StrLess(a, b) ==
  IF a = <<>> THEN b # <<>>
  ELSE IF b = <<>> THEN FALSE
  ELSE IF Head(a) < Head(b) THEN TRUE
  ELSE IF Head(b) < Head(a) THEN FALSE
  ELSE StrLess(Tail(a), Tail(b))

\* The keys of a BTreeMap in the order the map keeps them.
RECURSIVE SortedKeys(_)
SortedKeys(keys) ==
  IF keys = {} THEN <<>>
  ELSE LET least == CHOOSE k \in keys : \A j \in keys \ {k} : StrLess(k, j)
       IN  <<least>> \o SortedKeys(keys \ {least})

\* The values visited from the greatest key down.
ValuesReversed(map) ==
  LET keys == SortedKeys(DOMAIN map)
  IN  [i \in 1..Len(keys) |-> map[keys[Len(keys) + 1 - i]]]

\* BTreeMap::values(): the values in ascending key order.
Values(map) ==
  LET keys == SortedKeys(DOMAIN map)
  IN  [i \in 1..Len(keys) |-> map[keys[i]]]

\* Flatten over the values: the groups not yet entered and what is left of
\* the group being walked.
NewFlatten(kind, groups) == [kind |-> kind, outer |-> groups, front |-> <<>>]

\* Flatten::next: the next item of the current group, entering the next
\* group when the current one is used up; None when no group is left.
RECURSIVE FlattenNext(_)
FlattenNext(it) ==
  IF it.front # <<>>
    THEN [item |-> <<Head(it.front)>>, iter |-> [it EXCEPT !.front = Tail(@)]]
  ELSE IF it.outer = <<>>
    THEN [item |-> <<>>, iter |-> it]
  ELSE FlattenNext([it EXCEPT !.front = Head(it.outer), !.outer = Tail(@)])

\* The last next() returned None.
Exhausted == call.op = "next" /\ call.ret = <<>>

\* What the caller keeps of a finished iteration when it starts another.
Kept == IF Exhausted THEN <<[kind |-> iter.kind, items |-> out]>> ELSE <<>>

\* Contract::functions
CallFunctions ==
  /\ Built
  /\ iter' = NewFlatten("functions", Values(loaded.contract.functions))
  /\ out' = <<>>
  /\ prev' = Kept
  /\ call' = [op |-> "functions"]
  /\ UNCHANGED <<src, pos, result, loaded>>

\* Contract::events
CallEvents ==
  /\ Built
  /\ iter' = NewFlatten("events", Values(loaded.contract.events))
  /\ out' = <<>>
  /\ prev' = Kept
  /\ call' = [op |-> "events"]
  /\ UNCHANGED <<src, pos, result, loaded>>

\* Functions::next
FunctionsNext ==
  /\ iter.kind = "functions"
  /\ LET r == FlattenNext(iter)
     IN  /\ iter' = r.iter
         /\ out' = out \o r.item
         /\ call' = [op |-> "next", ret |-> r.item]
  /\ UNCHANGED <<src, pos, result, loaded, prev>>

\* Events::next
EventsNext ==
  /\ iter.kind = "events"
  /\ LET r == FlattenNext(iter)
     IN  /\ iter' = r.iter
         /\ out' = out \o r.item
         /\ call' = [op |-> "next", ret |-> r.item]
  /\ UNCHANGED <<src, pos, result, loaded, prev>>

NextIter ==
  \/ VisitElement
  \/ VisitError
  \/ VisitEnd
  \/ CallFunctions
  \/ CallEvents
  \/ FunctionsNext
  \/ EventsNext

SpecIter == Init /\ [][NextIter]_vars

----------------------------------------------------------------------------
\* What the source says, read off the source sequence itself

IsFunctionNamed(e, n) == e.tag = "Function" /\ e.func.name = n

IsEventNamed(e, n) == e.tag = "Event" /\ e.event.name = n

\* The Function entries of s named n, in source order.
FunctionsNamed(s, n) ==
  LET t == SelectSeq(s, LAMBDA e : IsFunctionNamed(e, n))
  IN  [i \in 1..Len(t) |-> t[i].func]

\* The Event entries of s named n, in source order.
EventsNamed(s, n) ==
  LET t == SelectSeq(s, LAMBDA e : IsEventNamed(e, n))
  IN  [i \in 1..Len(t) |-> t[i].event]

HasTag(s, tag) == \E i \in 1..Len(s) : s[i].tag = tag

\* The payload of the last Constructor entry of s, if there is one.
LastConstructor(s) ==
  LET I == {i \in 1..Len(s) : s[i].tag = "Constructor"}
  IN  IF I = {} THEN <<>>
      ELSE <<s[CHOOSE i \in I : \A j \in I : j <= i].constructor>>

\* The index of the first element the decoder fails on, 0 if there is none.
FirstBad(s) ==
  LET I == {i \in 1..Len(s) : s[i].tag = "Malformed"}
  IN  IF I = {} THEN 0 ELSE CHOOSE i \in I : \A j \in I : i <= j

\* The index the source sequence s describes.
RefContract(s) ==
  [constructor |-> LastConstructor(s),
   functions |-> [n \in {m \in Names : FunctionsNamed(s, m) # <<>>} |-> FunctionsNamed(s, n)],
   events |-> [n \in {m \in Names : EventsNamed(s, m) # <<>>} |-> EventsNamed(s, n)],
   fallback |-> HasTag(s, "Fallback"),
   receive |-> HasTag(s, "Receive")]

\* s with its elements i and i + 1 exchanged.
SwapAdjacent(s, i) ==
  [j \in 1..Len(s) |-> IF j = i THEN s[i + 1] ELSE IF j = i + 1 THEN s[i] ELSE s[j]]

\* Two entries that go to the same component of the index.
SameComponent(a, b) ==
  \/ a.tag = "Constructor" /\ b.tag = "Constructor"
  \/ a.tag = "Function" /\ b.tag = "Function" /\ a.func.name = b.func.name
  \/ a.tag = "Event" /\ b.tag = "Event" /\ a.event.name = b.event.name

NonEmptyGroups(c) ==
  /\ \A k \in DOMAIN c.functions : c.functions[k] # <<>>
  /\ \A k \in DOMAIN c.events : c.events[k] # <<>>

IsPrefix(a, b) == Len(a) <= Len(b) /\ SubSeq(b, 1, Len(a)) = a

\* The entries folded in so far.
Consumed == SubSeq(src, 1, IF loaded.tag = "Err" THEN pos - 1 ELSE pos)

----------------------------------------------------------------------------
\* C1: after the build, functions_by_name(n) returns exactly the Function
\* entries of the source named n, in source order, nothing lost, duplicated
\* or reordered, and events_by_name(n) exactly the Event entries named n in
\* source order (an error when there is none).
C1_OrderPreserved ==
  /\ call.op = "functions_by_name" =>
       LET g == FunctionsNamed(src, call.name)
       IN  IF g = <<>> THEN call.ret.tag = "Err"
           ELSE call.ret = [tag |-> "Ok", val |-> g]
  /\ call.op = "events_by_name" =>
       LET g == EventsNamed(src, call.name)
       IN  IF g = <<>> THEN call.ret.tag = "Err"
           ELSE call.ret = [tag |-> "Ok", val |-> g]

\* Two different overloads of one name with a function of another name
\* between them, returned by functions_by_name.
C1_Witness ==
  /\ call.op = "functions_by_name"
  /\ call.ret.tag = "Ok"
  /\ Len(src) = 3
  /\ IsFunctionNamed(src[1], call.name)
  /\ src[2].tag = "Function" /\ src[2].func.name # call.name
  /\ IsFunctionNamed(src[3], call.name)
  /\ src[1].func # src[3].func
  /\ call.ret.val = <<src[1].func, src[3].func>>

\* C2: constructor() is absent iff the source holds no Constructor entry and
\* is otherwise the payload of the last one; a repeated Constructor raises no
\* error (the build fails only on an element the decoder fails on).
C2_LastConstructor ==
  /\ call.op = "constructor" => call.ret = LastConstructor(src)
  /\ call.op = "constructor" => (call.ret = <<>> <=> ~HasTag(src, "Constructor"))
  /\ loaded.tag = "Err" => src[pos].tag = "Malformed"
  /\ (loaded = Pending /\ pos = Len(src) /\ FirstBad(src) = 0) => ENABLED VisitEnd

\* Two Constructor entries with different payloads; constructor() returns
\* the second.
C2_Witness ==
  /\ call.op = "constructor"
  /\ Len(src) >= 2
  /\ src[1].tag = "Constructor" /\ src[2].tag = "Constructor"
  /\ src[1].constructor # src[2].constructor
  /\ ~HasTag(SubSeq(src, 3, Len(src)), "Constructor")
  /\ call.ret = <<src[2].constructor>>

\* The flags after every prefix, in the built index and as fallback() reads
\* them.
C3_FlagsState ==
  /\ loaded.tag # "Err" =>
       /\ result.fallback = HasTag(Consumed, "Fallback")
       /\ result.receive = HasTag(Consumed, "Receive")
  /\ Built =>
       /\ loaded.contract.fallback = HasTag(src, "Fallback")
       /\ loaded.contract.receive = HasTag(src, "Receive")
  /\ call.op = "fallback" => call.ret = HasTag(src, "Fallback")

\* No step clears a flag, and neither arm touches the other flag.
C3_FlagsStep ==
  /\ result.fallback => result'.fallback
  /\ result.receive => result'.receive
  /\ (pos' = pos + 1 /\ src[pos + 1].tag = "Fallback") => result'.receive = result.receive
  /\ (pos' = pos + 1 /\ src[pos + 1].tag = "Receive") => result'.fallback = result.fallback

\* C3: fallback is true iff a Fallback entry was folded in and receive iff
\* a Receive entry was, however often either occurs; Fallback never sets
\* receive nor Receive fallback; a flag once true stays true; fallback()
\* reads the flag of the built index.
C3_Flags == []C3_FlagsState /\ [][C3_FlagsStep]_vars

\* Fallback twice and no Receive: fallback() is true, receive is false.
C3_Witness ==
  /\ call.op = "fallback"
  /\ call.ret = TRUE
  /\ Len(src) = 3
  /\ src[1].tag = "Fallback" /\ src[2].tag = "Fallback"
  /\ src[3].tag # "Receive"
  /\ loaded.contract.receive = FALSE

\* C4: function(n) and functions_by_name(n) succeed iff the source holds a
\* Function entry named n, event(n) and events_by_name(n) iff it holds an
\* Event entry named n; otherwise each fails with InvalidName carrying
\* exactly n. Functions and events do not see each other's names.
C4_LookupCompleteness ==
  /\ call.op \in {"function", "functions_by_name"} =>
       IF \E i \in 1..Len(src) : IsFunctionNamed(src[i], call.name)
         THEN call.ret.tag = "Ok"
         ELSE call.ret = [tag |-> "Err", error |-> [kind |-> "InvalidName", name |-> call.name]]
  /\ call.op \in {"event", "events_by_name"} =>
       IF \E i \in 1..Len(src) : IsEventNamed(src[i], call.name)
         THEN call.ret.tag = "Ok"
         ELSE call.ret = [tag |-> "Err", error |-> [kind |-> "InvalidName", name |-> call.name]]

\* event(n) fails with InvalidName(n) although a Function named n exists
\* and another event exists.
C4_Witness ==
  /\ call.op = "event"
  /\ call.ret = [tag |-> "Err", error |-> [kind |-> "InvalidName", name |-> call.name]]
  /\ \E i \in 1..Len(src) : IsFunctionNamed(src[i], call.name)
  /\ HasTag(src, "Event")

\* C5: function(n) returns the first element of functions_by_name(n), the
\* earliest Function entry named n of the source, and fails exactly when
\* functions_by_name(n) fails; likewise event(n) and events_by_name(n).
C5_FirstOverload ==
  /\ call.op = "function" =>
       LET g == functions_by_name(loaded.contract, call.name)
       IN  IF g.tag = "Ok"
             THEN /\ call.ret = [tag |-> "Ok", val |-> g.val[1]]
                  /\ \E i \in 1..Len(src) :
                       /\ IsFunctionNamed(src[i], call.name)
                       /\ \A j \in 1..(i - 1) : ~IsFunctionNamed(src[j], call.name)
                       /\ call.ret.val = src[i].func
             ELSE call.ret.tag = "Err"
  /\ call.op = "event" =>
       LET g == events_by_name(loaded.contract, call.name)
       IN  IF g.tag = "Ok"
             THEN /\ call.ret = [tag |-> "Ok", val |-> g.val[1]]
                  /\ \E i \in 1..Len(src) :
                       /\ IsEventNamed(src[i], call.name)
                       /\ \A j \in 1..(i - 1) : ~IsEventNamed(src[j], call.name)
                       /\ call.ret.val = src[i].event
             ELSE call.ret.tag = "Err"

\* function(n) returns the first of two different overloads.
C5_Witness ==
  /\ call.op = "function"
  /\ call.ret.tag = "Ok"
  /\ Len(FunctionsNamed(src, call.name)) >= 2
  /\ FunctionsNamed(src, call.name)[1] # FunctionsNamed(src, call.name)[2]
  /\ call.ret.val = FunctionsNamed(src, call.name)[1]

\* C6: the build is all or nothing. A decoder error at any position stops
\* the build at that first error and from_str returns the error only, with
\* the decoder's diagnostic and no index; without an error the build folds
\* in every entry once, in source order, is never stuck before it returns,
\* and returns the index the whole source describes; the empty source gives
\* no constructor, empty maps and both flags false.
C6_AllOrNothing ==
  /\ loaded.tag = "Err" =>
       /\ pos = FirstBad(src)
       /\ DOMAIN loaded = {"tag", "error"}
       /\ loaded.error = [kind |-> "SerdeJson", msg |-> src[pos].msg]
  /\ loaded = Pending =>
       /\ pos <= Len(src)
       /\ FirstBad(src) = 0 \/ pos < FirstBad(src)
       /\ result = RefContract(SubSeq(src, 1, pos))
       /\ ENABLED (VisitElement \/ VisitError \/ VisitEnd)
  /\ Built =>
       /\ FirstBad(src) = 0
       /\ pos = Len(src)
       /\ loaded.contract = RefContract(src)
  /\ (Built /\ src = <<>>) => loaded.contract = EmptyContract

\* The decoder fails on the second element, after a well-formed entry was
\* folded in and with an entry still to come: the error alone is returned.
C6_Witness ==
  /\ loaded.tag = "Err"
  /\ Len(src) = 3
  /\ pos = 2
  /\ src[3].tag # "Malformed"
  /\ result # EmptyContract

\* The sum of the sizes of the groups of a map.
RECURSIVE GroupSizes(_, _)
GroupSizes(map, keys) ==
  IF keys = {} THEN 0
  ELSE LET k == CHOOSE x \in keys : TRUE
       IN  Len(map[k]) + GroupSizes(map, keys \ {k})

\* items yielded so far from the groups of map, against the source's
\* entries of that kind (named[n]: those named n, in source order).
IterationSound(items, map, named, tag, finished) ==
  /\ \A i, j \in 1..Len(items) : i < j => ~StrLess(items[j].name, items[i].name)
  /\ \A n \in Names :
       IsPrefix(SelectSeq(items, LAMBDA x : x.name = n), named[n])
  /\ finished =>
       /\ \A n \in Names : SelectSeq(items, LAMBDA x : x.name = n) = named[n]
       /\ Len(items) = GroupSizes(map, DOMAIN map)
       /\ Len(items) = Len(SelectSeq(src, LAMBDA e : e.tag = tag))
       /\ (prev # <<>> /\ prev[1].kind = iter.kind) => items = prev[1].items

\* C7: functions() yields every stored function exactly once: as many items
\* as the function groups hold together, which is the number of Function
\* entries of the source, in ascending name order with source order inside
\* a name, and the same sequence again on a fresh call; events() likewise.
C7_IterationTotality ==
  /\ iter.kind = "functions" =>
       IterationSound(out, loaded.contract.functions,
                      [n \in Names |-> FunctionsNamed(src, n)], "Function", Exhausted)
  /\ iter.kind = "events" =>
       IterationSound(out, loaded.contract.events,
                      [n \in Names |-> EventsNamed(src, n)], "Event", Exhausted)

\* A second, finished run of functions() over "b", "ab", "b": the group of
\* "ab", inserted second, comes first, then the two overloads of "b" in
\* source order.
C7_Witness ==
  /\ iter.kind = "functions"
  /\ Exhausted
  /\ prev # <<>>
  /\ prev[1].kind = "functions"
  /\ Len(src) = 3
  /\ src[1].tag = "Function" /\ src[2].tag = "Function" /\ src[3].tag = "Function"
  /\ src[1].func.name = <<2>> /\ src[2].func.name = <<1, 2>> /\ src[3].func.name = <<2>>
  /\ src[1].func # src[3].func
  /\ out = <<src[2].func, src[1].func, src[3].func>>

\* Groups only grow at their end, and a key appears only with its first
\* entry.
C8_GroupsStep ==
  /\ \A k \in DOMAIN result.functions :
       /\ k \in DOMAIN result'.functions
       /\ IsPrefix(result.functions[k], result'.functions[k])
  /\ \A k \in DOMAIN result.events :
       /\ k \in DOMAIN result'.events
       /\ IsPrefix(result.events[k], result'.events[k])
  /\ \A k \in DOMAIN result'.functions \ DOMAIN result.functions :
       /\ pos' = pos + 1
       /\ IsFunctionNamed(src[pos + 1], k)
       /\ result'.functions[k] = <<src[pos + 1].func>>
  /\ \A k \in DOMAIN result'.events \ DOMAIN result.events :
       /\ pos' = pos + 1
       /\ IsEventNamed(src[pos + 1], k)
       /\ result'.events[k] = <<src[pos + 1].event>>

\* No key with an empty group.
C8_GroupsState ==
  /\ NonEmptyGroups(result)
  /\ Built => NonEmptyGroups(loaded.contract)

\* C8: during the fold and in the built index every key of the functions
\* map and of the events map has a non-empty group; a key appears only in
\* the step that appends its first entry; a group only grows at its end.
C8_Groups == []C8_GroupsState /\ [][C8_GroupsStep]_vars

\* Mid-fold: a group of two entries and a second key, just created, with
\* its first entry.
C8_Witness ==
  /\ loaded = Pending
  /\ pos = 3
  /\ \E k \in DOMAIN result.functions : Len(result.functions[k]) = 2
  /\ \E k \in DOMAIN result.events : result.events[k] = <<src[3].event>>

\* What a step that folds in one entry does to the index.
C9_FrameStep ==
  (loaded = Pending /\ loaded' = Pending /\ pos' = pos + 1) =>
    LET e == src[pos + 1]
        Same(fields) == \A f \in fields : result'[f] = result[f]
        OtherGroups(old, new, n) ==
          /\ DOMAIN new = DOMAIN old \cup {n}
          /\ \A k \in DOMAIN old \ {n} : new[k] = old[k]
    IN  /\ e.tag = "Constructor" =>
             /\ result'.constructor = <<e.constructor>>
             /\ Same({"functions", "events", "fallback", "receive"})
        /\ e.tag = "Function" =>
             /\ result'.functions[e.func.name] =
                  (IF e.func.name \in DOMAIN result.functions
                     THEN result.functions[e.func.name] ELSE <<>>) \o <<e.func>>
             /\ OtherGroups(result.functions, result'.functions, e.func.name)
             /\ Same({"constructor", "events", "fallback", "receive"})
        /\ e.tag = "Event" =>
             /\ result'.events[e.event.name] =
                  (IF e.event.name \in DOMAIN result.events
                     THEN result.events[e.event.name] ELSE <<>>) \o <<e.event>>
             /\ OtherGroups(result.events, result'.events, e.event.name)
             /\ Same({"constructor", "functions", "fallback", "receive"})
        /\ e.tag = "Fallback" =>
             /\ result'.fallback = TRUE
             /\ Same({"constructor", "functions", "events", "receive"})
        /\ e.tag = "Receive" =>
             /\ result'.receive = TRUE
             /\ Same({"constructor", "functions", "events", "fallback"})

\* C9: a fold step writes the one component its entry names and leaves the
\* others as they were: Constructor only constructor; Function(n) only the
\* functions group of n; Event(n) only the events group of n; Fallback only
\* fallback; Receive only receive.
C9_Frame == [][C9_FrameStep]_vars

\* A Receive entry was just folded into an index that already holds a
\* constructor and a function, with fallback still false.
C9_Witness ==
  /\ loaded = Pending
  /\ pos = 3
  /\ src[3].tag = "Receive"
  /\ result.receive
  /\ ~result.fallback
  /\ result.constructor # <<>>
  /\ DOMAIN result.functions # {}

\* C10: exchanging two adjacent entries of the source gives the same index
\* (constructor, maps and flags) unless both are Constructor entries, both
\* Function entries of one name or both Event entries of one name.
C10_AdjacentSwap ==
  Built =>
    \A i \in 1..(Len(src) - 1) :
      ~SameComponent(src[i], src[i + 1]) =>
        Fold(EmptyContract, SwapAdjacent(src, i)) = loaded.contract

\* A built index whose source has two different adjacent entries that go to
\* different components, the second one a Constructor following a Fallback.
C10_Witness ==
  /\ Built
  /\ Len(src) = 3
  /\ src[1].tag = "Function"
  /\ src[2].tag = "Fallback"
  /\ src[3].tag = "Constructor"
  /\ loaded.contract.fallback
  /\ loaded.contract.constructor = <<src[3].constructor>>

====
